---------------------------- MODULE Spec2Model ----------------------------
(***************************************************************************)
(* A model of the AstraGeek stereographic sky-chart pipeline:              *)
(*   helpers/time.py      sidereal time and Julian date                    *)
(*   helpers/geometry.py  rotation to the horizon frame and projection     *)
(*   stereographic_projector.py   StereoProjConfig and StereoProjector     *)
(*   hip_catalog/hip_catalog.py   Star and ECICoords                       *)
(*                                                                         *)
(* Number representation.  The program computes in binary floating point;  *)
(* the model computes in fixed point with 32-bit-safe integers:            *)
(*   - a time in hours is an integer count of 1e-7 hour (HU per hour);     *)
(*   - a Julian date is an integer count of half days (it always ends .5); *)
(*   - an angle in radians is an integer count of arc seconds (Pi is       *)
(*     648000), so deg2rad is a multiplication by 3600;                    *)
(*   - a trigonometric value is an integer count of 1/TS, the sine being   *)
(*     tabulated every half degree.                                        *)
(***************************************************************************)
EXTENDS Integers, Sequences, FiniteSets

VARIABLES
    \* ---- helpers/time.py, driven as time_example.py drives it
    local,          \* the datetime handed to the time functions
    longitude,      \* the longitude handed to them (radians, as arc seconds)
    jd_out,         \* result of julian_date(local)
    sid_out,        \* result of vequinox_hour_angle(longitude, local)
    prev_jd,        \* jd_out of the previous calendar day
    prev_sid,       \* sid_out of the previous calendar day
    days_done,      \* how many times local was advanced by 24 h
    other_longitude,\* a second longitude the same instant is evaluated at
    sid_other,      \* result of vequinox_hour_angle(other_longitude, local)
    \* ---- the projection pipeline
    config,         \* the StereoProjConfig, once constructed
    catalog_data,   \* the sequence of Star objects handed to the pipeline
    mag_criteria,   \* Catalog.mag_criteria, in half magnitudes
    hor_out,        \* result of geometry.get_horizontal_coords
    points_data,    \* result of geometry.make_point_projections
    sp_views,       \* result of StereoProjector._make_star_views
    sp_points       \* result of StereoProjector._make_point_projections

time_vars == <<local, longitude, jd_out, sid_out, prev_jd, prev_sid, days_done,
               other_longitude, sid_other>>

proj_vars == <<config, catalog_data, mag_criteria, hor_out, points_data, sp_views, sp_points>>

vars == <<local, longitude, jd_out, sid_out, prev_jd, prev_sid, days_done,
          other_longitude, sid_other,
          config, catalog_data, mag_criteria, hor_out, points_data, sp_views, sp_points>>

---------------------------------------------------------------------------
(* Bounds of the model *)

\* how many times a run advances the instant by 24 hours
MaxDays == 2

\* the longest catalog handed to the pipeline
MaxStars == 2

---------------------------------------------------------------------------
(* Fixed-point helpers *)

\* units of 1e-7 hour in one hour
HU == 10 * 1000 * 1000

\* floor(a * b / c) for c > 0 without forming a * b
MulDiv(a, b, c) == a * (b \div c) + (a * (b % c)) \div c

\* Python's int() of a float: truncation towards zero, of the quotient n / d, d > 0
IntTrunc(n, d) == IF n >= 0 THEN n \div d ELSE -((-n) \div d)

---------------------------------------------------------------------------
(* datetime (Python standard library), as far as the program uses it *)

MINYEAR == 1

IsLeap(y) == (y % 4 = 0) /\ ((y % 100 # 0) \/ (y % 400 = 0))

DaysInMonth(y, m) ==
    IF m = 2 THEN (IF IsLeap(y) THEN 29 ELSE 28)
    ELSE IF m \in {4, 6, 9, 11} THEN 30 ELSE 31

RECURSIVE DaysBeforeMonth(_, _)
DaysBeforeMonth(y, m) ==
    IF m = 1 THEN 0 ELSE DaysBeforeMonth(y, m - 1) + DaysInMonth(y, m - 1)

\* date + timedelta(days=1)
PlusOneDay(d) ==
    IF d.day < DaysInMonth(d.year, d.month) THEN [d EXCEPT !.day = @ + 1]
    ELSE IF d.month < 12 THEN [d EXCEPT !.day = 1, !.month = @ + 1]
    ELSE [d EXCEPT !.day = 1, !.month = 1, !.year = @ + 1]

---------------------------------------------------------------------------
(* helpers/time.py *)

\* the calendar test of julian_date, as the code writes it
UsesJulianRule(year, month, day) == year <= 1582 /\ month <= 10 /\ day <= 4

\* the correction term b of julian_date
julian_b(date_time) ==
    LET year  == date_time.year
        month == date_time.month
        day   == date_time.day
        y     == IF month > 2 THEN year ELSE year - 1
        a     == IntTrunc(y, 100)
    IN  IF UsesJulianRule(year, month, day) THEN 0
        ELSE 2 - a + IntTrunc(a, 4)

\* julian_date, in half days: 2 * jd
julian_date(date_time) ==
    LET year  == date_time.year
        month == date_time.month
        y     == IF month > 2 THEN year ELSE year - 1
        m     == IF month > 2 THEN month ELSE month + 12
        d     == date_time.day
        b     == julian_b(date_time)
    IN  2 * (IntTrunc(36525 * y, 100) + IntTrunc(306001 * (m + 1), 10000) + d + b)
          + 3441989

\* get_total_hours(t): t.hour + t.minute / 60 + t.second / 3600, as a count of
\* 1/3600 hour
get_total_hours(t) == 3600 * t.hour + 60 * t.minute + t.second

\* get_time(total_hours): the three fields handed to time(); total_hours in HU.
\* The quotients by HU are reduced by 20 (3 / 500000 for 60 / HU) so that a
\* total_hours outside one day does not overflow.
get_time(total_hours) ==
    LET hours   == IntTrunc(total_hours % (24 * HU), HU)
        frac    == total_hours - hours * HU
        minutes == IntTrunc(frac * 3, HU \div 20)
        \* (total_hours - hours - minutes / 60) * 3600
        seconds == IntTrunc((frac * 3 - minutes * (HU \div 20)) * 60, HU \div 20)
    IN  [hour |-> hours, minute |-> minutes, second |-> seconds]

\* datetime.time(hour, minute, second) accepts these fields (else ValueError)
TimeValid(t) ==
    t.hour \in 0..23 /\ t.minute \in 0..59 /\ t.second \in 0..59

\* get_timeshift(longitude): the timedelta's fields; longitude in arc seconds,
\* so rad2deg(longitude) / 15 hours is longitude / 54000 hours
get_timeshift(lon) ==
    LET hours   == (lon % (24 * 54000)) \div 54000
        rest    == lon - hours * 54000
        minutes == IntTrunc(rest * 60, 54000)
        \* (total_hours - hours - minutes / 60.0) * 3600
        seconds == IntTrunc((rest * 60 - minutes * 54000) * 60, 54000)
    IN  [hours |-> hours, minutes |-> minutes, seconds |-> seconds]

\* origin = datetime(year, 1, 1) - timedelta(days=1): 31 December of year - 1
OriginOf(year) ==
    [year |-> year - 1, month |-> 12, day |-> 31, hour |-> 0, minute |-> 0, second |-> 0]

\* a mutant of ShiftOf: the leap day is not counted
ShiftOf_NoLeap(gmt) == DaysBeforeMonth(1900, gmt.month) + gmt.day

\* int((gmt - origin).total_seconds() / 86400.0): whole days since "0 January"
ShiftOf(gmt) == DaysBeforeMonth(gmt.year, gmt.month) + gmt.day

\* U = R - 24 * (year - 1900) in HU, where T = (jd - 2415020) / 36525 and
\* R = 6.6460656 + 2400.051262 * T + 0.00002581 * T**2.  With n2 = 2 * jd - 4830040
\* half days, T = n2 / 73050, and 2400 * T - 24 * (year - 1900) =
\* 24 * (100 * n2 - 73050 * (year - 1900)) / 73050 is formed before scaling to HU.
SiderealU(year, jd2) ==
    LET n2 == jd2 - 4830040
        N  == 100 * n2 - 73050 * (year - 1900)
        Tm == (n2 * 1000) \div 73050
    IN  66460656
          + MulDiv(N, 1600000, 487)
          + MulDiv(n2, 51262, 7305)
          + (((Tm * Tm) \div 1000) * 2581) \div 10000

\* A = 0.0657098 in HU
SiderealA == 657098

\* C * get_total_hours(local.time()) in HU, C = 1.002738
SiderealC(secs) == MulDiv(secs, 1002738, 360)

\* a mutant of SiderealSum: the time shift of the longitude is added to the hours
SiderealSum_Shifted(lon, loc) ==
    LET timeshift == get_timeshift(lon)
        gmt    == loc
        year   == gmt.year
        origin == OriginOf(year)
        shift  == ShiftOf(gmt)
        jd     == julian_date(origin)
        U      == SiderealU(year, jd)
        B      == 24 * HU - U
        T0     == shift * SiderealA - B
    IN  SiderealC(get_total_hours(loc)
                  + 3600 * timeshift.hours + 60 * timeshift.minutes + timeshift.seconds)
          + T0

\* C * get_total_hours(local.time()) + T0 of get_sidereal_time, in HU
SiderealSum(lon, loc) ==
    LET timeshift == get_timeshift(lon)
        gmt    == loc
        year   == gmt.year
        origin == OriginOf(year)
        shift  == ShiftOf(gmt)
        jd     == julian_date(origin)
        U      == SiderealU(year, jd)
        B      == 24 * HU - U
        T0     == shift * SiderealA - B
    IN  SiderealC(get_total_hours(loc)) + T0

\* a mutant of SiderealLst: the sum is not wrapped into one day
SiderealLst_NoWrap(lon, loc) == SiderealSum(lon, loc)

\* the value lst = (C * hours + T0) % 24 that get_sidereal_time hands to get_time
SiderealLst(lon, loc) == SiderealSum(lon, loc) % (24 * HU)

\* get_sidereal_time(longitude, local): the time object, or the exception raised
get_sidereal_time(lon, loc) ==
    IF loc.year - 1 < MINYEAR
    THEN [status |-> "OverflowError", lst |-> 0, time |-> [hour |-> 0, minute |-> 0, second |-> 0]]
    ELSE LET lst == SiderealLst(lon, loc)
             t   == get_time(lst)
         IN  [status |-> IF TimeValid(t) THEN "ok" ELSE "ValueError",
              lst |-> lst, time |-> t]

\* vequinox_hour_angle(longitude, local): deg2rad(get_total_hours(t) * 15), in arc
\* seconds (one second of time is 15 arc seconds)
vequinox_hour_angle(lon, loc) ==
    LET r == get_sidereal_time(lon, loc)
    IN  [status |-> r.status, lst |-> r.lst, time |-> r.time,
         angle |-> IF r.status = "ok" THEN get_total_hours(r.time) * 15 ELSE 0]

---------------------------------------------------------------------------
(* numpy, as far as the program uses it, in fixed point *)

\* a trigonometric value 1.0
TS == 10 * 1000

Pi == 648000
HalfPi == Pi \div 2

\* the lattice step of the sine table: half a degree, in arc seconds
Step == Pi \div 360

\* a float that is not a number (np.arccos outside [-1, 1]); every comparison
\* with it is false
NaN == 10 * TS * TS

\* n / d rounded to the nearest integer, halves away from zero (d > 0)
RoundDiv(n, d) ==
    IF n >= 0 THEN (2 * n + d) \div (2 * d) ELSE -((2 * (-n) + d) \div (2 * d))

\* a product of two fixed-point values
Mul(a, b) == RoundDiv(a * b, TS)

Max(a, b) == IF a >= b THEN a ELSE b

\* TS * sin(k / 2 degrees), k = 0 .. 180
SinTable ==
    << 0, 87, 175, 262, 349, 436, 523, 610, 698, 785, 872, 958,
       1045, 1132, 1219, 1305, 1392, 1478, 1564, 1650, 1736, 1822, 1908, 1994,
       2079, 2164, 2250, 2334, 2419, 2504, 2588, 2672, 2756, 2840, 2924, 3007,
       3090, 3173, 3256, 3338, 3420, 3502, 3584, 3665, 3746, 3827, 3907, 3987,
       4067, 4147, 4226, 4305, 4384, 4462, 4540, 4617, 4695, 4772, 4848, 4924,
       5000, 5075, 5150, 5225, 5299, 5373, 5446, 5519, 5592, 5664, 5736, 5807,
       5878, 5948, 6018, 6088, 6157, 6225, 6293, 6361, 6428, 6494, 6561, 6626,
       6691, 6756, 6820, 6884, 6947, 7009, 7071, 7133, 7193, 7254, 7314, 7373,
       7431, 7490, 7547, 7604, 7660, 7716, 7771, 7826, 7880, 7934, 7986, 8039,
       8090, 8141, 8192, 8241, 8290, 8339, 8387, 8434, 8480, 8526, 8572, 8616,
       8660, 8704, 8746, 8788, 8829, 8870, 8910, 8949, 8988, 9026, 9063, 9100,
       9135, 9171, 9205, 9239, 9272, 9304, 9336, 9367, 9397, 9426, 9455, 9483,
       9511, 9537, 9563, 9588, 9613, 9636, 9659, 9681, 9703, 9724, 9744, 9763,
       9781, 9799, 9816, 9833, 9848, 9863, 9877, 9890, 9903, 9914, 9925, 9936,
       9945, 9954, 9962, 9969, 9976, 9981, 9986, 9990, 9994, 9997, 9998, 10000,
       10000 >>

\* sine of the lattice angle k half degrees, any integer k
SinK(k) ==
    LET r == k % 720
    IN  IF r <= 180 THEN SinTable[r + 1]
        ELSE IF r <= 360 THEN SinTable[360 - r + 1]
        ELSE IF r <= 540 THEN -SinTable[r - 360 + 1]
        ELSE -SinTable[720 - r + 1]

\* np.sin, np.cos and np.tan of an angle in arc seconds, the angle rounded to
\* the lattice
Sin(a) == SinK(RoundDiv(a, Step))
Cos(a) == SinK(RoundDiv(a, Step) + 180)
Tan(a) ==
    IF a = NaN THEN NaN
    ELSE IF Cos(a) = 0 THEN TS * TS
    ELSE RoundDiv(Sin(a) * TS, Cos(a))

\* np.arccos: the angle in [0, pi], to whole degrees (rounded towards pi / 2 from
\* either side, so that arccos(c) <= pi / 2 exactly when c >= 0); NaN outside
\* [-1, 1]
RECURSIVE ArcCos(_)
ArcCos(c) ==
    IF c > TS \/ c < -TS THEN NaN
    ELSE IF c >= 0
         THEN 3600 * Cardinality({k \in 1..90 : SinK(2 * k + 180) >= c})
         ELSE Pi - ArcCos(-c)

\* np.atan2(y, x): the angle in (-pi, pi] of the direction (x, y), to the
\* lattice; atan2(0, 0) = 0
RECURSIVE ArcTan2(_, _)
ArcTan2(y, x) ==
    IF y = 0 /\ x = 0 THEN 0
    ELSE IF y < 0 THEN -ArcTan2(-y, x)
    ELSE Step * Cardinality({k \in 1..360 :
            LET cross == SinK(k + 180) * y - SinK(k) * x
                dot   == SinK(k + 180) * x + SinK(k) * y
            IN  cross > 0 \/ (cross = 0 /\ dot > 0)})

---------------------------------------------------------------------------
(* hip_catalog/hip_catalog.py *)

\* ECICoords(x, y, z)
ECICoords(x, y, z) == [x |-> x, y |-> y, z |-> z]

\* Star.init_eci: the inertial vector of (alpha, delta)
init_eci(alpha, delta) ==
    ECICoords(Mul(Cos(alpha), Cos(delta)), Mul(Sin(alpha), Cos(delta)), Sin(delta))

\* Star(v_mag, right_ascension, declination)
Star(v_mag, right_ascension, declination) ==
    [v_mag |-> v_mag,
     eq_coords |-> [right_ascension |-> right_ascension, declination |-> declination],
     eci_coords |-> init_eci(right_ascension, declination)]

---------------------------------------------------------------------------
(* helpers/geometry.py *)

HorizontalCoords(zenith_dist, azimuth) == [zenith_dist |-> zenith_dist, azimuth |-> azimuth]

StarView(v_mag, hor_coords) == [v_mag |-> v_mag, hor_coords |-> hor_coords]

PointProjection(radius, rho, phi) == [radius |-> radius, rho |-> rho, phi |-> phi]

\* a row of a rotation matrix applied to a vector
RowDot(row, v) == Mul(row[1], v.x) + Mul(row[2], v.y) + Mul(row[3], v.z)

\* a mutant of HelperRotation: the sign of sin(latitude) in the zenith row is lost
HelperRotation_Flipped(latitude, sidereal_time) ==
    LET sl == Sin(latitude)
        cl == Cos(latitude)
        st == Sin(sidereal_time)
        ct == Cos(sidereal_time)
    IN  << <<st, -ct, 0>>,
           <<Mul(sl, ct), Mul(sl, st), -cl>>,
           <<Mul(cl, ct), Mul(cl, st), -sl>> >>

\* rotation_matrix of get_horizontal_coords
HelperRotation(latitude, sidereal_time) ==
    LET sl == Sin(latitude)
        cl == Cos(latitude)
        st == Sin(sidereal_time)
        ct == Cos(sidereal_time)
    IN  << <<st, -ct, 0>>,
           <<Mul(sl, ct), Mul(sl, st), -cl>>,
           <<Mul(cl, ct), Mul(cl, st), sl>> >>

\* get_horizontal_coords(config, catalog_data), given the sidereal time it
\* computed: cartesian_hor_coords, azimuths, zeniths
HelperCoords(latitude, sidereal_time, catalog) ==
    LET rm   == HelperRotation(latitude, sidereal_time)
        cart == [i \in 1..Len(catalog) |->
                    [x |-> RowDot(rm[1], catalog[i].eci_coords),
                     y |-> RowDot(rm[2], catalog[i].eci_coords),
                     z |-> RowDot(rm[3], catalog[i].eci_coords)]]
    IN  [cartesian_hor_coords |-> cart,
         azimuths |-> [i \in 1..Len(catalog) |-> ArcTan2(cart[i].x, cart[i].y) - HalfPi],
         zeniths  |-> [i \in 1..Len(catalog) |-> ArcCos(cart[i].z)]]

\* get_horizontal_coords(config, catalog_data): its result, or the exception
\* vequinox_hour_angle raised
get_horizontal_coords(cfg, catalog) ==
    LET sidereal_time == vequinox_hour_angle(cfg.longitude, cfg.local_time)
    IN  IF sidereal_time.status # "ok"
        THEN [status |-> sidereal_time.status, sidereal_time |-> 0,
              cartesian_hor_coords |-> <<>>, azimuths |-> <<>>, zeniths |-> <<>>]
        ELSE LET r == HelperCoords(cfg.latitude, sidereal_time.angle, catalog)
             IN  [status |-> "ok", sidereal_time |-> sidereal_time.angle,
                  cartesian_hor_coords |-> r.cartesian_hor_coords,
                  azimuths |-> r.azimuths, zeniths |-> r.zeniths]

\* mag_to_radius(magnitude, mag_criteria): 1.5 * max(mag_criteria - magnitude, 0);
\* magnitudes in half magnitudes, the radius in quarters
mag_to_radius(magnitude, criteria) == 3 * Max(criteria - magnitude, 0)

\* a mutant of StereoRho: the zenith distance is not halved
StereoRho_NotHalved(zenith_dist) ==
    IF zenith_dist = NaN THEN NaN ELSE 2 * Tan(zenith_dist)

\* the stereographic radius 2 * tan(zenith_dist / 2), in 1 / TS
StereoRho(zenith_dist) ==
    IF zenith_dist = NaN THEN NaN ELSE 2 * Tan(zenith_dist \div 2)

\* a mutant of IsAboveHorizon: a star exactly on the horizon is dropped
IsAboveHorizon_Strict(zenith_dist) == zenith_dist # NaN /\ zenith_dist < HalfPi

\* the filter star_view.hor_coords.zenith_dist <= np.pi / 2 of make_point_projections
IsAboveHorizon(zenith_dist) == zenith_dist # NaN /\ zenith_dist <= HalfPi

\* make_point_projections(star_view_data, mag_criteria): the list comprehension
RECURSIVE make_point_projections(_, _)
make_point_projections(star_view_data, criteria) ==
    IF star_view_data = <<>> THEN <<>>
    ELSE LET star_view == Head(star_view_data)
             rest      == make_point_projections(Tail(star_view_data), criteria)
         IN  IF IsAboveHorizon(star_view.hor_coords.zenith_dist)
             THEN <<PointProjection(mag_to_radius(star_view.v_mag, criteria),
                                    StereoRho(star_view.hor_coords.zenith_dist),
                                    star_view.hor_coords.azimuth)>>
                  \o rest
             ELSE rest

\* the star views a caller of the helpers builds from the catalog and the
\* arrays get_horizontal_coords returned
HelperStarViews(catalog, hor) ==
    [i \in 1..Len(catalog) |->
        StarView(catalog[i].v_mag, HorizontalCoords(hor.zeniths[i], hor.azimuths[i]))]

---------------------------------------------------------------------------
(* stereographic_projector.py *)

\* StereoProjConfig.__post_init__: degrees to radians
StereoProjConfig(add_ecliptic, utc_time, latitude, lon) ==
    [status |-> "ok", add_ecliptic |-> add_ecliptic, utc_time |-> utc_time,
     latitude |-> latitude * 3600, longitude |-> lon * 3600]

\* timeshift = self.config.longitude * 3600 / 15.0, in whole seconds (the
\* longitude is in radians here: arc seconds * pi / 648000, pi taken as 355 / 113)
ProjectorTimeshift(lon) == RoundDiv(lon * 355, 2700 * 113)

\* sidereal_time of _make_star_views, modulo a full turn: the timestamp of
\* utc_time at the offset timeshift, times pi / (12 * 3600)
ProjectorSiderealTime(cfg) ==
    15 * ((get_total_hours(cfg.utc_time) - ProjectorTimeshift(cfg.longitude)) % 86400)

\* rotation_matrix of _make_star_views
ProjectorRotation(latitude, sidereal_time) ==
    LET sl == Sin(latitude)
        cl == Cos(latitude)
        st == Sin(sidereal_time)
        ct == Cos(sidereal_time)
    IN  << <<st, Mul(sl, ct), -Mul(cl, ct)>>,
           <<-ct, Mul(sl, st), -Mul(cl, st)>>,
           <<0, cl, sl>> >>

\* StereoProjector._make_star_views(catalog_data)
StereoProjector_make_star_views(cfg, catalog) ==
    LET rm   == ProjectorRotation(cfg.latitude, ProjectorSiderealTime(cfg))
        cart == [i \in 1..Len(catalog) |->
                    [x |-> RowDot(rm[1], catalog[i].eci_coords),
                     y |-> RowDot(rm[2], catalog[i].eci_coords),
                     z |-> RowDot(rm[3], catalog[i].eci_coords)]]
    IN  [i \in 1..Len(catalog) |->
            StarView(catalog[i].v_mag,
                     HorizontalCoords(ArcCos(cart[i].z), -ArcTan2(cart[i].y, cart[i].x)))]

\* StereoProjector._mag_to_radius(magnitude): max(6 - magnitude, 0); magnitudes
\* in half magnitudes, the radius in quarters
StereoProjector_mag_to_radius(magnitude) == 2 * Max(12 - magnitude, 0)

\* the filter of StereoProjector._make_point_projections
ProjectorIsAboveHorizon(zenith_dist) == zenith_dist # NaN /\ zenith_dist <= HalfPi

\* StereoProjector._make_point_projections(star_view_data)
RECURSIVE StereoProjector_make_point_projections(_)
StereoProjector_make_point_projections(star_view_data) ==
    IF star_view_data = <<>> THEN <<>>
    ELSE LET star_view == Head(star_view_data)
             rest      == StereoProjector_make_point_projections(Tail(star_view_data))
         IN  IF ProjectorIsAboveHorizon(star_view.hor_coords.zenith_dist)
             THEN <<PointProjection(StereoProjector_mag_to_radius(star_view.v_mag),
                                    StereoRho(star_view.hor_coords.zenith_dist),
                                    star_view.hor_coords.azimuth)>>
                  \o rest
             ELSE rest

---------------------------------------------------------------------------
(* The instants and longitudes the time functions are driven with *)

Years == {1, 2, 1500, 1582, 1583, 1899, 1900, 1980, 2000, 2023, 2024}
Days == {1, 4, 5, 15, 25, 28, 29, 30, 31}
DaySeconds == {0, 52612, 86399}
LongitudesDeg == {0, 37}
OtherLongitudesDeg == {0, 37, -120}

Instants ==
    {[year |-> y, month |-> m, day |-> d,
      hour |-> s \div 3600, minute |-> (s % 3600) \div 60, second |-> s % 60] :
        <<y, m, d, s>> \in
            {q \in Years \X (1..12) \X Days \X DaySeconds : q[3] <= DaysInMonth(q[1], q[2])}}

NoJd == [status |-> "none", b |-> 0, jd2 |-> 0]
NoSid == [status |-> "none", lst |-> 0,
          time |-> [hour |-> 0, minute |-> 0, second |-> 0], angle |-> 0]

NoConfig == [status |-> "none", add_ecliptic |-> FALSE, utc_time |-> 0,
             latitude |-> 0, longitude |-> 0]
NoHor == [status |-> "none", sidereal_time |-> 0,
          cartesian_hor_coords |-> <<>>, azimuths |-> <<>>, zeniths |-> <<>>]
NoPoints == [status |-> "none", views |-> <<>>, points |-> <<>>]

\* the projection pipeline is not run
ProjIdle ==
    /\ config = NoConfig
    /\ catalog_data = <<>>
    /\ mag_criteria = 11
    /\ hor_out = NoHor
    /\ points_data = NoPoints
    /\ sp_views = NoPoints
    /\ sp_points = NoPoints

TimeInit ==
    /\ local \in Instants
    /\ longitude \in {3600 * l : l \in LongitudesDeg}
    /\ jd_out = NoJd
    /\ sid_out = NoSid
    /\ prev_jd = NoJd
    /\ prev_sid = NoSid
    /\ days_done = 0
    /\ other_longitude = 0
    /\ sid_other = NoSid
    /\ ProjIdle

\* julian_date(local), as time_example.py calls it
CallJulianDate ==
    /\ jd_out.status = "none"
    /\ jd_out' = [status |-> "ok", b |-> julian_b(local), jd2 |-> julian_date(local)]
    /\ UNCHANGED <<local, longitude, sid_out, prev_jd, prev_sid, days_done,
                   other_longitude, sid_other>>
    /\ UNCHANGED proj_vars

\* vequinox_hour_angle(longitude, local)
CallVequinoxHourAngle ==
    /\ sid_out.status = "none"
    /\ sid_out' = vequinox_hour_angle(longitude, local)
    /\ UNCHANGED <<local, longitude, jd_out, prev_jd, prev_sid, days_done,
                   other_longitude, sid_other>>
    /\ UNCHANGED proj_vars

\* vequinox_hour_angle(other_longitude, local): the same instant, evaluated for
\* an observer at another longitude
CallVequinoxHourAngleElsewhere ==
    /\ sid_other.status = "none"
    /\ \E l \in OtherLongitudesDeg :
          /\ other_longitude' = 3600 * l
          /\ sid_other' = vequinox_hour_angle(3600 * l, local)
    /\ UNCHANGED <<local, longitude, jd_out, sid_out, prev_jd, prev_sid, days_done>>
    /\ UNCHANGED proj_vars

\* the caller moves on to local + timedelta(days=1), keeping the day's results
NextDay ==
    /\ days_done < MaxDays
    /\ jd_out.status # "none"
    /\ sid_out.status # "none"
    /\ local' = PlusOneDay(local)
    /\ prev_jd' = jd_out
    /\ prev_sid' = sid_out
    /\ jd_out' = NoJd
    /\ sid_out' = NoSid
    /\ days_done' = days_done + 1
    /\ other_longitude' = 0
    /\ sid_other' = NoSid
    /\ UNCHANGED longitude
    /\ UNCHANGED proj_vars

TimeNext ==
    \/ CallJulianDate
    \/ CallVequinoxHourAngle
    \/ CallVequinoxHourAngleElsewhere
    \/ NextDay

SpecTime == TimeInit /\ [][TimeNext]_vars

---------------------------------------------------------------------------
(* The projection pipeline: the configurations and catalogs it is driven with *)

LatitudesDeg == {-30, 0, 1, 45, 89, 90, 100}
ConfigLongitudesDeg == {0, 200}

\* 1980-04-22 14:36:52 (time_example.py), and two instants of 2021-03-01
\* (stereographic_projector_example.py): local sidereal time 0 h, and midnight
UtcTimes ==
    { [year |-> 1980, month |-> 4, day |-> 22, hour |-> 14, minute |-> 36, second |-> 52],
      [year |-> 2021, month |-> 3, day |-> 1, hour |-> 13, minute |-> 21, second |-> 44],
      [year |-> 2021, month |-> 3, day |-> 1, hour |-> 0, minute |-> 0, second |-> 0] }

\* a Star whose public field eci_coords was assigned a vector that is not of
\* unit length
MalformedStar == [Star(9, 0, 0) EXCEPT !.eci_coords = ECICoords(0, 0, 2 * TS)]

\* catalog stars: (1, 0, 0), (0, 1, 0), the south celestial pole, a star of
\* general position, and the malformed one
StarChoices ==
    { Star(4, 0, 0), Star(11, 90 * 3600, 0), Star(14, 0, -90 * 3600),
      Star(12, 45 * 3600, 30 * 3600), MalformedStar }

Catalogs == UNION {[1..n -> StarChoices] : n \in 0..MaxStars}

\* Catalog.mag_criteria: the default 5.5, and 6
MagCriteria == {11, 12}


\* the dict get_horizontal_coords reads: longitude, latitude, local_time
HelperConfig(cfg) ==
    [longitude |-> cfg.longitude, latitude |-> cfg.latitude, local_time |-> cfg.utc_time]

IdleInstant == [year |-> 2021, month |-> 3, day |-> 1, hour |-> 6, minute |-> 0, second |-> 0]

TimeIdle ==
    /\ local = IdleInstant
    /\ longitude = 0
    /\ jd_out = NoJd
    /\ sid_out = NoSid
    /\ prev_jd = NoJd
    /\ prev_sid = NoSid
    /\ days_done = 0
    /\ other_longitude = 0
    /\ sid_other = NoSid

Init ==
    /\ TimeIdle
    /\ config = NoConfig
    /\ catalog_data \in Catalogs
    /\ mag_criteria \in MagCriteria
    /\ hor_out = NoHor
    /\ points_data = NoPoints
    /\ sp_views = NoPoints
    /\ sp_points = NoPoints

\* StereoProjConfig(add_ecliptic, utc_time, latitude, longitude), in degrees
ConstructConfig ==
    /\ config.status = "none"
    /\ \E lat \in LatitudesDeg, lon \in ConfigLongitudesDeg, t \in UtcTimes :
          config' = StereoProjConfig(TRUE, t, lat, lon)
    /\ UNCHANGED <<catalog_data, mag_criteria, hor_out, points_data, sp_views, sp_points>>
    /\ UNCHANGED time_vars

\* geometry.get_horizontal_coords(config, catalog_data)
CallGetHorizontalCoords ==
    /\ config.status = "ok"
    /\ hor_out.status = "none"
    /\ hor_out' = get_horizontal_coords(HelperConfig(config), catalog_data)
    /\ UNCHANGED <<config, catalog_data, mag_criteria, points_data, sp_views, sp_points>>
    /\ UNCHANGED time_vars

\* geometry.make_point_projections(star_view_data, mag_criteria) on the star
\* views of the arrays get_horizontal_coords returned
CallMakePointProjections ==
    /\ hor_out.status = "ok"
    /\ points_data.status = "none"
    /\ LET star_view_data == HelperStarViews(catalog_data, hor_out)
       IN  points_data' = [status |-> "ok", views |-> star_view_data,
                           points |-> make_point_projections(star_view_data, mag_criteria)]
    /\ UNCHANGED <<config, catalog_data, mag_criteria, hor_out, sp_views, sp_points>>
    /\ UNCHANGED time_vars

\* StereoProjector._make_star_views(catalog_data)
CallProjectorMakeStarViews ==
    /\ config.status = "ok"
    /\ sp_views.status = "none"
    /\ sp_views' = [status |-> "ok",
                    views |-> StereoProjector_make_star_views(config, catalog_data),
                    points |-> <<>>]
    /\ UNCHANGED <<config, catalog_data, mag_criteria, hor_out, points_data, sp_points>>
    /\ UNCHANGED time_vars

\* StereoProjector._make_point_projections(star_view_data)
CallProjectorMakePointProjections ==
    /\ sp_views.status = "ok"
    /\ sp_points.status = "none"
    /\ sp_points' = [status |-> "ok", views |-> sp_views.views,
                     points |-> StereoProjector_make_point_projections(sp_views.views)]
    /\ UNCHANGED <<config, catalog_data, mag_criteria, hor_out, points_data, sp_views>>
    /\ UNCHANGED time_vars

Next ==
    \/ ConstructConfig
    \/ CallGetHorizontalCoords
    \/ CallMakePointProjections
    \/ CallProjectorMakeStarViews
    \/ CallProjectorMakePointProjections

Spec == Init /\ [][Next]_vars

---------------------------------------------------------------------------
(* Claims about helpers/time.py, checked under SpecTime *)

\* (year, month, day) of d is chronologically on or before (y, m, dd)
OnOrBefore(d, y, m, dd) ==
    \/ d.year < y
    \/ d.year = y /\ d.month < m
    \/ d.year = y /\ d.month = m /\ d.day <= dd

\* the Gregorian correction term 2 - a + floor(a / 4), a = floor(y / 100)
GregorianTerm(d) ==
    LET y == IF d.month > 2 THEN d.year ELSE d.year - 1
        a == y \div 100
    IN  2 - a + (a \div 4)

\* C3: julian_date chooses the calendar rule by one chronological comparison
\* of (year, month, day) with 4 October 1582: b = 0 on or before that date,
\* b = 2 - a + floor(a / 4) after it.
C3_ChronologicalSwitch ==
    jd_out.status = "ok" =>
        jd_out.b = (IF OnOrBefore(local, 1582, 10, 4) THEN 0 ELSE GregorianTerm(local))

\* one second of time, in arc seconds of hour angle
OneSecondArc == 15

\* a full turn in arc seconds
FullTurn == 2 * Pi

\* C7: whenever get_sidereal_time computes a local sidereal time, the value it
\* hands to get_time lies in [0, 24) hours, get_time returns a valid time of day
\* (time() raises no ValueError), and vequinox_hour_angle returns an angle in
\* [0, 2 pi).
C7_SiderealTimeInRange ==
    /\ sid_out.status # "ValueError"
    /\ sid_out.status = "ok" =>
          /\ 0 <= sid_out.lst /\ sid_out.lst < 24 * HU
          /\ TimeValid(sid_out.time)
          /\ 0 <= sid_out.angle /\ sid_out.angle < FullTurn

\* C7 witness: a sidereal time was returned for an instant whose unwrapped sum
\* C * hours + T0 is negative
C7_Witness ==
    /\ sid_out.status = "ok"
    /\ SiderealSum(longitude, local) < 0

\* the sidereal/solar correction of one day, 0.9856 degrees, in arc seconds
DailyDrift == (9856 * 3600) \div 10000

\* C8: the hour angles computed for t and t + 24 h differ, modulo a full turn,
\* by the one-day correction (0.9856 degrees) within one second of time, also
\* across a year end, for leap and non-leap years.
C8_DailyDrift ==
    (prev_sid.status = "ok" /\ sid_out.status = "ok") =>
        LET d == (sid_out.angle - prev_sid.angle) % FullTurn
        IN  d >= DailyDrift - OneSecondArc /\ d <= DailyDrift + OneSecondArc

\* C8 witness: t is 31 December of a leap year and t + 24 h is 1 January
C8_Witness ==
    /\ prev_sid.status = "ok" /\ sid_out.status = "ok"
    /\ local.month = 1 /\ local.day = 1
    /\ IsLeap(local.year - 1)

\* C11: the observer longitude has no effect on the sidereal time: whenever
\* the same instant was evaluated at longitude and at other_longitude, the two
\* calls of get_sidereal_time agree (the same time of day, or the same
\* exception) and the two calls of vequinox_hour_angle return the same angle;
\* the timedelta of get_timeshift does not enter the result.
C11_LongitudeIndependent ==
    (sid_out.status # "none" /\ sid_other.status # "none") =>
        /\ sid_other.status = sid_out.status
        /\ sid_other.lst = sid_out.lst
        /\ sid_other.time = sid_out.time
        /\ sid_other.angle = sid_out.angle

\* C11 witness: a sidereal time was returned for one instant at two longitudes
\* whose time shifts differ
C11_Witness ==
    /\ sid_out.status = "ok" /\ sid_other.status = "ok"
    /\ other_longitude # longitude
    /\ get_timeshift(other_longitude) # get_timeshift(longitude)
    /\ get_timeshift(longitude).hours # 0

\* julian_date was called for two consecutive calendar days: prev_jd for the
\* day before local, jd_out for local
ConsecutiveDays == prev_jd.status = "ok" /\ jd_out.status = "ok"

\* both days are later than 15 October 1582 (local is the later one), and the
\* later Julian date is exactly one day, two half days, greater
GregorianContinuity ==
    (ConsecutiveDays /\ ~OnOrBefore(local, 1582, 10, 16)) =>
        jd_out.jd2 = prev_jd.jd2 + 2

\* both days are on or before 4 October 1582, and the Julian date increases
JulianMonotone ==
    (ConsecutiveDays /\ OnOrBefore(local, 1582, 10, 4)) =>
        jd_out.jd2 > prev_jd.jd2

\* C12: julian_date is a continuous day count within each calendar: for two
\* consecutive calendar days both later than 15 October 1582 the Julian date
\* of the later day is exactly 1 greater; and for dates d1 earlier than d2 both
\* on or before 4 October 1582, julian_date(d1) < julian_date(d2), stated for
\* consecutive days, from which every pair follows by transitivity.
C12_ContinuousDayCount == GregorianContinuity /\ JulianMonotone

---------------------------------------------------------------------------
(* Claims about the projection pipeline, checked under Spec *)

\* the two runs of the point-projection step: the helper's and the projector's
PointRuns == {points_data, sp_points}

\* the star views with zenith distance <= pi / 2
VisibleIdx(views) ==
    {i \in 1..Len(views) :
        /\ views[i].hor_coords.zenith_dist # NaN
        /\ views[i].hor_coords.zenith_dist <= HalfPi}

\* the index of the k-th of them
KthVisible(views, k) ==
    CHOOSE i \in VisibleIdx(views) : Cardinality({j \in VisibleIdx(views) : j <= i}) = k

\* C1: the point-projection step returns exactly one PointProjection per star
\* view with zenith distance <= pi / 2 (the horizon included), none for any
\* other, in the order of the input.
C1_StableFilter ==
    \A run \in PointRuns :
        run.status = "ok" =>
            /\ Len(run.points) = Cardinality(VisibleIdx(run.views))
            /\ \A k \in 1..Len(run.points) :
                  LET v == run.views[KthVisible(run.views, k)]
                  IN  /\ run.points[k].phi = v.hor_coords.azimuth
                      /\ run.points[k].rho = 2 * Tan(v.hor_coords.zenith_dist \div 2)

\* C1 witness: make_point_projections was given a star below the horizon and
\* then a star exactly on it, and returned one point
C1_Witness ==
    /\ points_data.status = "ok"
    /\ Len(points_data.views) = 2
    /\ points_data.views[1].hor_coords.zenith_dist > HalfPi
    /\ points_data.views[2].hor_coords.zenith_dist = HalfPi
    /\ Len(points_data.points) = 1

\* C2: the marker radius of every emitted point is 1.5 * max(c - m, 0), on the
\* helper's path and on the projector's.
C2_RadiusMapping ==
    \A run \in PointRuns :
        run.status = "ok" =>
            \A k \in 1..Len(run.points) :
                LET v == run.views[KthVisible(run.views, k)]
                IN  run.points[k].radius = 3 * Max(mag_criteria - v.v_mag, 0)

\* C4: a constructed configuration holds a latitude in [-90, 90] degrees and a
\* longitude in (-180, 180] degrees (anything else fails at construction).
C4_ConfigInRange ==
    config.status = "ok" =>
        /\ config.latitude >= -HalfPi /\ config.latitude <= HalfPi
        /\ config.longitude > -Pi /\ config.longitude <= Pi

\* the catalog star i is at right ascension 0, declination 0
IsVernalStar(i) == catalog_data[i].eci_coords = ECICoords(TS, 0, 0)

\* C5: for an observer at latitude 0, longitude 0 and a star with inertial
\* vector (1, 0, 0), when the sidereal hour angle of the conversion is 0 the
\* star's zenith distance is 0, and it is emitted with rho = 0; on both
\* conversion paths.
C5_ZenithAtHourAngleZero ==
    (config.status = "ok" /\ config.latitude = 0 /\ config.longitude = 0) =>
        /\ (hor_out.status = "ok" /\ hor_out.sidereal_time = 0) =>
              \A i \in 1..Len(catalog_data) :
                  IsVernalStar(i) => hor_out.zeniths[i] = 0
        /\ (sp_views.status = "ok" /\ ProjectorSiderealTime(config) = 0) =>
              \A i \in 1..Len(catalog_data) :
                  IsVernalStar(i) => sp_views.views[i].hor_coords.zenith_dist = 0
        /\ (points_data.status = "ok" /\ hor_out.sidereal_time = 0
               /\ Len(catalog_data) = 1 /\ IsVernalStar(1)) =>
              Len(points_data.points) = 1 /\ points_data.points[1].rho = 0
        /\ (sp_points.status = "ok" /\ ProjectorSiderealTime(config) = 0
               /\ Len(catalog_data) = 1 /\ IsVernalStar(1)) =>
              Len(sp_points.points) = 1 /\ sp_points.points[1].rho = 0

\* the catalog star i is at declination -pi / 2
IsSouthPole(i) == catalog_data[i].eci_coords = ECICoords(0, 0, -TS)

\* C6: for a latitude strictly between 0 and pi / 2 and any hour angle, a star
\* with inertial vector (0, 0, -1) has a negative zenith component, a zenith
\* distance > pi / 2, and is not in the output of the point-projection step.
C6_SouthPoleNeverVisible ==
    (config.status = "ok" /\ config.latitude > 0 /\ config.latitude < HalfPi) =>
        /\ hor_out.status = "ok" =>
              \A i \in 1..Len(catalog_data) :
                  IsSouthPole(i) =>
                      /\ hor_out.cartesian_hor_coords[i].z < 0
                      /\ hor_out.zeniths[i] # NaN /\ hor_out.zeniths[i] > HalfPi
        /\ sp_views.status = "ok" =>
              \A i \in 1..Len(catalog_data) :
                  IsSouthPole(i) =>
                      /\ sp_views.views[i].hor_coords.zenith_dist # NaN
                      /\ sp_views.views[i].hor_coords.zenith_dist > HalfPi
        /\ \A run \in PointRuns :
              run.status = "ok" =>
                  Len(run.points) <=
                      Cardinality({i \in 1..Len(catalog_data) : ~IsSouthPole(i)})

\* C6 witness: at latitude 45 degrees both paths projected a catalog of a
\* visible star followed by the south-pole star, and the helper emitted one point
C6_Witness ==
    /\ config.status = "ok" /\ config.latitude = 45 * 3600
    /\ points_data.status = "ok" /\ sp_points.status = "ok"
    /\ Len(catalog_data) = 2 /\ IsSouthPole(2) /\ ~IsSouthPole(1)
    /\ Len(points_data.points) = 1

\* the squared norm of a vector is 1 within the fixed-point resolution
NormOk(v) ==
    LET n2 == v.x * v.x + v.y * v.y + v.z * v.z
    IN  n2 >= TS * TS - (TS * TS) \div 1000 /\ n2 <= TS * TS + (TS * TS) \div 1000

\* C9: a transformation returns zenith distances and azimuths only for inertial
\* and horizon-frame vectors of norm 1 (otherwise it signals a
\* DataIntegrityError), so no point is emitted from any other vector.
C9_NormChecked ==
    /\ hor_out.status = "ok" =>
          \A i \in 1..Len(catalog_data) :
              /\ NormOk(catalog_data[i].eci_coords)
              /\ NormOk(hor_out.cartesian_hor_coords[i])
    /\ sp_views.status = "ok" =>
          \A i \in 1..Len(catalog_data) : NormOk(catalog_data[i].eci_coords)
    /\ \A run \in PointRuns :
          (run.status = "ok" /\ Len(run.points) > 0) =>
              \E i \in 1..Len(catalog_data) : NormOk(catalog_data[i].eci_coords)

\* the zenith distances of the lattice in [0, pi / 2]: whole degrees
LatticeZeniths == {3600 * k : k \in 0..90}

\* C10: rho = 2 * tan(zeta / 2) is strictly increasing in zeta on [0, pi / 2],
\* rho(0) = 0 and rho(pi / 2) = 2; every emitted point has 0 <= rho <= 2 and its
\* phi is the azimuth of its star view.
C10_StereographicRadius ==
    /\ StereoRho(0) = 0
    /\ StereoRho(HalfPi) = 2 * TS
    /\ \A z \in LatticeZeniths \ {HalfPi} : StereoRho(z) < StereoRho(z + 3600)
    /\ \A run \in PointRuns :
          run.status = "ok" =>
              /\ Len(run.points) = Cardinality(VisibleIdx(run.views))
              /\ \A k \in 1..Len(run.points) :
                    LET v == run.views[KthVisible(run.views, k)]
                    IN  /\ run.points[k].rho >= 0
                        /\ run.points[k].rho <= 2 * TS
                        /\ run.points[k].phi = v.hor_coords.azimuth
                        /\ \A j \in 1..Len(run.points) :
                              LET w == run.views[KthVisible(run.views, j)]
                              IN  w.hor_coords.zenith_dist < v.hor_coords.zenith_dist
                                    => run.points[j].rho < run.points[k].rho

\* C10 witness: a star at the zenith and a star on the horizon were emitted,
\* at the centre of the plane and on the ring of radius 2
C10_Witness ==
    /\ points_data.status = "ok"
    /\ Len(points_data.points) = 2
    /\ points_data.views[1].hor_coords.zenith_dist = 0
    /\ points_data.views[2].hor_coords.zenith_dist = HalfPi
    /\ points_data.points[1].rho = 0
    /\ points_data.points[2].rho = 2 * TS

=============================================================================
